---- MODULE Spec2Model ----
(***************************************************************************)
(* Model of the prover backend (src/src/main.ts).  The file holds five     *)
(* successive versions of the same Hono application; each one is a program *)
(* of its own and `variant` says which one is running:                     *)
(*   1  lines   1-113  json body, formula.txt written, prover-log.txt read *)
(*   2  lines 115-216  json body "sequent", validation inside the handler  *)
(*   3  lines 218-303  json body, format array, prover-log.txt read        *)
(*   4  lines 305-403  form body, format array, stdout classified          *)
(*   5  lines 405-491  form body, checkboxes, prover-log.txt read          *)
(* A request runs through tempDirMiddleware (mkdtempSync / try / finally   *)
(* rmSync) around the handler; the handler awaits a child process wrapped  *)
(* in `timeout`, then classifies and harvests.  The child (prover.jar) is  *)
(* external: what it prints, which files it writes and how it exits are    *)
(* nondeterministic.                                                       *)
(***************************************************************************)
EXTENDS Integers, Sequences, FiniteSets, TLC

----------------------------------------------------------------------------
(* Bounds of the model *)

\* number of requests processed concurrently in SpecConc
NumReq == 2
\* number of distinct directory names mkdtempSync can generate
NumNames == 2
\* largest timeout value a client is modelled to send (one above the schema's max)
MaxTimeoutInput == 11
\* seconds a child without a time limit is followed for
MaxElapsed == 11

----------------------------------------------------------------------------
(* Program constants *)

\* exit status of `timeout` when the time limit expired
TimeoutExit == 124
\* upper bound of the timeout field in every schema
MaxTimeout == 10

Variants == 1..5
Requests == 1..NumReq
Names == 1..NumNames
NoDir == 0

Formats == {"bussproofs", "ebproof"}

\* path of the output file of a format, relative to the workspace
OutFile(f) == IF f = "bussproofs" THEN "out-bussproofs.tex" ELSE "out-ebproof.tex"

LogFile == "prover-log.txt"
FormulaTex == "formula.tex"
FormulaTxt == "formula.txt"

\* files the child may write
ChildFiles == {LogFile, FormulaTex} \cup {OutFile(f) : f \in Formats}
FileNames == ChildFiles \cup {FormulaTxt}

ParseMarker == "Parse Error"
OomSignature == "OutOfMemoryError"
SoSignature == "StackOverflowError"

FailedTimeout == "Failed: Timeout"
FailedOom == "Failed: OutOfMemoryError"
FailedSo == "Failed: StackOverflowError"
FailedUnexpected == "Failed: Unexpected error"
FailureMarkers == {FailedTimeout, FailedOom, FailedSo, FailedUnexpected}

\* String.prototype.includes / Buffer.prototype.includes on a text held as a
\* sequence of tokens
Includes(s, w) == \E i \in 1..Len(s) : s[i] = w

VARIABLES
  variant,    \* which version of main.ts is the running program
  reqs,       \* the requests that arrive in this run
  pc,         \* position of each request in middleware/handler
  req,        \* the request body
  ws,         \* c.get('out'): the workspace path of the request
  dirs,       \* directories existing in the cwd
  files,      \* content of the files in each directory (0: no such file)
  alive,      \* the request's child process is running
  elapsed,    \* seconds the child has been running
  outc,       \* { stdout, stderr, exitCode } of the finished child
  resp,       \* what the handler returned (or the error it threw)
  delivered,  \* what the client receives
  relErr,     \* rmSync in the finally block threw
  trace       \* the pipeline steps the request went through, in order

vars == <<variant, reqs, pc, req, ws, dirs, files, alive, elapsed, outc, resp,
          delivered, relErr, trace>>

\* more than one request in the run
Conc == Cardinality(reqs) > 1

----------------------------------------------------------------------------
(* Inputs *)

NoReq == [parsable |-> FALSE, formula |-> "", formats |-> {}, timeout |-> 0]

\* request bodies a client sends
Bodies ==
  IF Conc
    THEN [parsable : {TRUE}, formula : {"P"}, formats : {{"bussproofs"}},
          timeout : {1}]
    ELSE [parsable : BOOLEAN, formula : {"", "P"}, formats : SUBSET Formats,
          timeout : 0..MaxTimeoutInput]

\* program versions under consideration
RunVariants == IF Conc THEN {1, 2} ELSE Variants

\* files the child is followed writing
WrittenFiles == IF Conc THEN {LogFile, OutFile("bussproofs")} ELSE ChildFiles

Stdouts == IF Conc THEN {<<"foo">>} ELSE {<<"foo">>, <<"foo", ParseMarker>>}

Stderrs ==
  IF Conc THEN {<<>>}
  ELSE {<<>>, <<OomSignature>>, <<SoSignature>>, <<OomSignature, SoSignature>>}

ExitCodes == IF Conc THEN {0} ELSE {0, 1}

NoOutcome == [stdout |-> <<>>, stderr |-> <<>>, exitCode |-> 0]

----------------------------------------------------------------------------
(* Request validation *)

\* the timeout field of the schema
timeoutSchema(v, t) ==
  CASE v \in {1, 3} -> t > 0 /\ t <= MaxTimeout
    [] v = 2        -> t >= 0 /\ t <= MaxTimeout
    [] OTHER        -> t \in {3, 5, 10}

\* the whole schema: body readable, formula/sequent non-empty, timeout
schema(v, b) == b.parsable /\ b.formula # "" /\ timeoutSchema(v, b.timeout)

----------------------------------------------------------------------------
(* Responses *)

NoArts == [f \in Formats |-> 0]

NoResp == [kind |-> "none", text |-> <<>>, textOwner |-> 0, formula |-> 0,
           arts |-> NoArts]

\* app.onError: c.text('Unexpected error')
onError == [NoResp EXCEPT !.kind = "error"]

\* c.text('Invalid Request', 400)
InvalidRequest == [NoResp EXCEPT !.kind = "invalid"]

----------------------------------------------------------------------------
(* File system *)

NoFiles == [f \in FileNames |-> 0]

\* Bun.file(path).exists()
exists(d, f) == d \in dirs /\ files[d][f] # 0

\* mkdtempSync without the existence check: any name at all
mkdtempAnyName == Names

\* names mkdtempSync('out-') may return: any name not in use
mkdtempSync == Names \ dirs

\* a release that leaves the directory in place
rmSyncNothing(d) == dirs

\* directories left by rmSync(out, { recursive: true })
rmSync(d) == dirs \ {d}

\* rmSync without force throws ENOENT when the path does not exist
rmSyncThrows(d) == d \notin dirs

----------------------------------------------------------------------------
(* The handler after the child has returned *)

\* what the child writes into prover-log.txt
LogText == <<"foo">>

\* formats the request asks for
requested(b) == b.formats

\* "\n" between stdout and the failure line (variant 2 only)
sep(v) == IF v = 2 THEN <<"\n">> ELSE <<>>

\* c.text(...)
textResponse(r, t) == [NoResp EXCEPT !.kind = "text", !.text = t, !.textOwner = r]

\* some requested format has no output file
missingArtifact(R, d) == \E f \in R : ~exists(d, OutFile(f))

\* the checks of variants 2 and 4 with the exit code looked at before stdout
classifyTimeoutFirst(v, r, o, R, d) ==
  IF o.exitCode = TimeoutExit
    THEN textResponse(r, o.stdout \o sep(v) \o <<FailedTimeout>>)
  ELSE IF Includes(o.stdout, ParseMarker)
    THEN textResponse(r, o.stdout)
  ELSE IF Includes(o.stderr, OomSignature)
    THEN textResponse(r, o.stdout \o sep(v) \o <<FailedOom>>)
  ELSE IF Includes(o.stderr, SoSignature)
    THEN textResponse(r, o.stdout \o sep(v) \o <<FailedSo>>)
  ELSE IF missingArtifact(R, d)
    THEN textResponse(r, o.stdout \o sep(v) \o <<FailedUnexpected>>)
  ELSE [kind |-> "json", text |-> o.stdout, textOwner |-> r, formula |-> 0,
        arts |-> [f \in Formats |->
                    IF f \in R THEN files[d][OutFile(f)] ELSE 0]]

\* variants 2 and 4: one check after the other, each returning
classifyReturn(v, r, o, R, d) ==
  IF Includes(o.stdout, ParseMarker)
    THEN textResponse(r, o.stdout)
  ELSE IF o.exitCode = TimeoutExit
    THEN textResponse(r, o.stdout \o sep(v) \o <<FailedTimeout>>)
  ELSE IF Includes(o.stderr, OomSignature)
    THEN textResponse(r, o.stdout \o sep(v) \o <<FailedOom>>)
  ELSE IF Includes(o.stderr, SoSignature)
    THEN textResponse(r, o.stdout \o sep(v) \o <<FailedSo>>)
  ELSE IF missingArtifact(R, d)
    THEN textResponse(r, o.stdout \o sep(v) \o <<FailedUnexpected>>)
  ELSE [kind |-> "json", text |-> o.stdout, textOwner |-> r, formula |-> 0,
        arts |-> [f \in Formats |->
                    IF f \in R THEN files[d][OutFile(f)] ELSE 0]]

\* variants 1, 3 and 5: let text = ...; text += ...
appendText(o) ==
  LogText
    \o (IF o.exitCode = TimeoutExit THEN <<FailedTimeout>> ELSE <<>>)
    \o (IF Includes(o.stderr, OomSignature) THEN <<FailedOom>> ELSE <<>>)
    \o (IF Includes(o.stderr, SoSignature) THEN <<FailedSo>> ELSE <<>>)

\* variants 1, 3 and 5: read the log, append, probe every output file
classifyAppend(v, r, o, R, d) ==
  IF ~exists(d, LogFile)
    THEN onError   \* Bun.file(...).text() rejects with ENOENT
    ELSE [kind |-> "json", text |-> appendText(o),
          textOwner |-> files[d][LogFile],
          formula |-> IF v = 1 /\ exists(d, FormulaTex)
                        THEN files[d][FormulaTex] ELSE 0,
          arts |-> [f \in Formats |->
                      IF exists(d, OutFile(f)) THEN files[d][OutFile(f)] ELSE 0]]

\* the handler from the line after `await $...` to its return
handlerTail(v, r, o, R, d) ==
  IF v \in {2, 4} THEN classifyReturn(v, r, o, R, d)
                  ELSE classifyAppend(v, r, o, R, d)

\* a handler that goes on without awaiting the child
runNotAwaited(r) == TRUE

\* `await $...` has resolved: the child has terminated
runReturned(r) == ~alive[r]

----------------------------------------------------------------------------
(* Initial states *)

InitWith(rs) ==
  /\ reqs = rs
  /\ variant \in RunVariants
  /\ pc = [r \in Requests |-> "idle"]
  /\ req = [r \in Requests |-> NoReq]
  /\ ws = [r \in Requests |-> NoDir]
  /\ dirs = {}
  /\ files = [d \in Names |-> NoFiles]
  /\ alive = [r \in Requests |-> FALSE]
  /\ elapsed = [r \in Requests |-> 0]
  /\ outc = [r \in Requests |-> NoOutcome]
  /\ resp = [r \in Requests |-> NoResp]
  /\ delivered = [r \in Requests |-> NoResp]
  /\ relErr = [r \in Requests |-> FALSE]
  /\ trace = [r \in Requests |-> <<>>]

Init == InitWith({1})

InitConc == InitWith(Requests)

----------------------------------------------------------------------------
(* Actions *)

\* a request arrives; every variant but 2 validates before the middleware
Receive(r) ==
  /\ r \in reqs /\ pc[r] = "idle"
  /\ \E b \in Bodies :
       /\ req' = [req EXCEPT ![r] = b]
       /\ IF variant = 2 \/ schema(variant, b)
            THEN /\ pc' = [pc EXCEPT ![r] = "accepted"]
                 /\ UNCHANGED <<resp, delivered>>
            ELSE /\ pc' = [pc EXCEPT ![r] = "done"]
                 /\ resp' = [resp EXCEPT ![r] = InvalidRequest]
                 /\ delivered' = [delivered EXCEPT ![r] = InvalidRequest]
  /\ UNCHANGED <<variant, reqs, ws, dirs, files, alive, elapsed, outc, relErr, trace>>

\* tempDirMiddleware: const out = mkdtempSync('out-'); c.set('out', out)
Acquire(r) ==
  /\ pc[r] = "accepted"
  /\ \E d \in mkdtempSync :
       /\ dirs' = dirs \cup {d}
       /\ files' = [files EXCEPT ![d] = NoFiles]
       /\ ws' = [ws EXCEPT ![r] = d]
  /\ pc' = [pc EXCEPT ![r] = "acquired"]
  /\ trace' = [trace EXCEPT ![r] = Append(@, "acquire")]
  /\ UNCHANGED <<variant, reqs, req, alive, elapsed, outc, resp, delivered, relErr>>

\* mkdtempSync throws (the file system cannot allocate the directory)
AcquireFail(r) ==
  /\ pc[r] = "accepted"
  /\ pc' = [pc EXCEPT ![r] = "done"]
  /\ resp' = [resp EXCEPT ![r] = onError]
  /\ delivered' = [delivered EXCEPT ![r] = onError]
  /\ UNCHANGED <<variant, reqs, req, ws, dirs, files, alive, elapsed, outc, relErr, trace>>

\* variant 2: c.req.json() and safeParse inside the handler
Validate(r) ==
  /\ variant = 2 /\ pc[r] = "acquired"
  /\ IF schema(variant, req[r])
       THEN /\ pc' = [pc EXCEPT ![r] = "ready"]
            /\ UNCHANGED resp
       ELSE /\ pc' = [pc EXCEPT ![r] = "releasing"]
            /\ resp' = [resp EXCEPT ![r] =
                          IF req[r].parsable THEN InvalidRequest ELSE onError]
  /\ UNCHANGED <<variant, reqs, req, ws, dirs, files, alive, elapsed, outc,
                 delivered, relErr, trace>>

\* variant 1: await Bun.write(`${out}/formula.txt`, formula)
WriteInput(r) ==
  /\ variant = 1 /\ pc[r] = "acquired"
  /\ files' = [files EXCEPT ![ws[r]][FormulaTxt] = r]
  /\ pc' = [pc EXCEPT ![r] = "ready"]
  /\ trace' = [trace EXCEPT ![r] = Append(@, "write")]
  /\ UNCHANGED <<variant, reqs, req, ws, dirs, alive, elapsed, outc, resp,
                 delivered, relErr>>

\* variant 1: Bun.write rejects
WriteInputFail(r) ==
  /\ variant = 1 /\ pc[r] = "acquired"
  /\ resp' = [resp EXCEPT ![r] = onError]
  /\ pc' = [pc EXCEPT ![r] = "releasing"]
  /\ trace' = [trace EXCEPT ![r] = Append(@, "write")]
  /\ UNCHANGED <<variant, reqs, req, ws, dirs, files, alive, elapsed, outc,
                 delivered, relErr>>

\* $`timeout ${timeout} java -jar ... prover.jar ...`: the child starts
Invoke(r) ==
  /\ \/ pc[r] = "ready"
     \/ pc[r] = "acquired" /\ variant \in {3, 4, 5}
  /\ pc' = [pc EXCEPT ![r] = "running"]
  /\ alive' = [alive EXCEPT ![r] = TRUE]
  /\ elapsed' = [elapsed EXCEPT ![r] = 0]
  /\ trace' = [trace EXCEPT ![r] = Append(@, "invoke")]
  /\ UNCHANGED <<variant, reqs, req, ws, dirs, files, outc, resp, delivered, relErr>>

\* the child writes one of its output files into the directory it was given
ChildWrite(r) ==
  /\ alive[r] /\ ws[r] \in dirs
  /\ \E f \in WrittenFiles :
       /\ files[ws[r]][f] = 0
       /\ files' = [files EXCEPT ![ws[r]][f] = r]
  /\ UNCHANGED <<variant, reqs, pc, req, ws, dirs, alive, elapsed, outc, resp,
                 delivered, relErr, trace>>

\* the child removes the directory it was given
ChildRemove(r) ==
  /\ alive[r] /\ ws[r] \in dirs
  /\ dirs' = dirs \ {ws[r]}
  /\ files' = [files EXCEPT ![ws[r]] = NoFiles]
  /\ UNCHANGED <<variant, reqs, pc, req, ws, alive, elapsed, outc, resp,
                 delivered, relErr, trace>>

\* one second passes; `timeout 0` sets no limit
Tick(r) ==
  /\ alive[r]
  /\ elapsed[r] < MaxElapsed
  /\ req[r].timeout = 0 \/ elapsed[r] < req[r].timeout
  /\ elapsed' = [elapsed EXCEPT ![r] = @ + 1]
  /\ UNCHANGED <<variant, reqs, pc, req, ws, dirs, files, alive, outc, resp,
                 delivered, relErr, trace>>

\* the child ends with the given outcome
childEnds(r, o) ==
  /\ alive' = [alive EXCEPT ![r] = FALSE]
  /\ elapsed' = [elapsed EXCEPT ![r] = 0]
  /\ outc' = [outc EXCEPT ![r] = o]
  /\ trace' = [trace EXCEPT ![r] = Append(@, "exit")]
  /\ UNCHANGED <<variant, reqs, pc, req, ws, dirs, files, resp, delivered, relErr>>

\* the child exits by itself
ChildExit(r) ==
  /\ alive[r]
  /\ \E so \in Stdouts, se \in Stderrs, code \in ExitCodes :
       childEnds(r, [stdout |-> so, stderr |-> se, exitCode |-> code])

\* the time limit expires: `timeout` kills the child and exits with 124
TimeoutKill(r) ==
  /\ alive[r]
  /\ req[r].timeout > 0 /\ elapsed[r] = req[r].timeout
  /\ \E so \in Stdouts, se \in Stderrs :
       childEnds(r, [stdout |-> so, stderr |-> se, exitCode |-> TimeoutExit])

\* the handler from the resolution of `await $...` to its return or throw
Harvest(r) ==
  /\ pc[r] = "running" /\ runReturned(r)
  /\ resp' = [resp EXCEPT ![r] =
                handlerTail(variant, r, outc[r], requested(req[r]), ws[r])]
  /\ pc' = [pc EXCEPT ![r] = "releasing"]
  /\ trace' = [trace EXCEPT ![r] = Append(@, "harvest")]
  /\ UNCHANGED <<variant, reqs, req, ws, dirs, files, alive, elapsed, outc,
                 delivered, relErr>>

\* tempDirMiddleware: finally { rmSync(out, { recursive: true }) }
Release(r) ==
  /\ pc[r] = "releasing"
  /\ IF rmSyncThrows(ws[r])
       THEN /\ relErr' = [relErr EXCEPT ![r] = TRUE]
            /\ delivered' = [delivered EXCEPT ![r] = onError]
            /\ UNCHANGED <<dirs, files>>
       ELSE /\ dirs' = rmSync(ws[r])
            /\ files' = [files EXCEPT ![ws[r]] = NoFiles]
            /\ delivered' = [delivered EXCEPT ![r] = resp[r]]
            /\ UNCHANGED relErr
  /\ pc' = [pc EXCEPT ![r] = "done"]
  /\ trace' = [trace EXCEPT ![r] = Append(@, "release")]
  /\ UNCHANGED <<variant, reqs, req, ws, alive, elapsed, outc, resp>>

\* requests served by a toolchain that keeps to the directory contract
NextConc ==
  \E r \in Requests :
    \/ Receive(r)
    \/ Acquire(r)
    \/ AcquireFail(r)
    \/ Validate(r)
    \/ WriteInput(r)
    \/ WriteInputFail(r)
    \/ Invoke(r)
    \/ ChildWrite(r)
    \/ Tick(r)
    \/ ChildExit(r)
    \/ TimeoutKill(r)
    \/ Harvest(r)
    \/ Release(r)

\* one request; the child may also remove its directory
Next ==
  \E r \in Requests :
    \/ Receive(r)
    \/ Acquire(r)
    \/ AcquireFail(r)
    \/ Validate(r)
    \/ WriteInput(r)
    \/ WriteInputFail(r)
    \/ Invoke(r)
    \/ ChildWrite(r)
    \/ ChildRemove(r)
    \/ Tick(r)
    \/ ChildExit(r)
    \/ TimeoutKill(r)
    \/ Harvest(r)
    \/ Release(r)

Spec == Init /\ [][Next]_vars

SpecConc == InitConc /\ [][NextConc]_vars

----------------------------------------------------------------------------
(* Vocabulary of the properties *)

\* the handler of r has classified and harvested and the finally block has
\* not run yet: the workspace is as the handler saw it
Harvested(r) ==
  /\ pc[r] = "releasing"
  /\ Len(trace[r]) > 0 /\ trace[r][Len(trace[r])] = "harvest"

\* the request went through tempDirMiddleware
Entered(r) == Len(trace[r]) > 0

\* output files present in the workspace of r
Present(r) == {f \in Formats : exists(ws[r], OutFile(f))}

\* formats a response carries an artifact for
ArtifactKeys(rp) == {f \in Formats : rp.arts[f] # 0}

\* failure lines a response text carries
MarkersIn(rp) == {m \in FailureMarkers : Includes(rp.text, m)}

\* the verdicts a response reports
Verdicts(rp) ==
  (IF FailedTimeout \in MarkersIn(rp) THEN {"Timeout"} ELSE {})
  \cup (IF FailedOom \in MarkersIn(rp) THEN {"OutOfMemory"} ELSE {})
  \cup (IF FailedSo \in MarkersIn(rp) THEN {"StackOverflow"} ELSE {})
  \cup (IF FailedUnexpected \in MarkersIn(rp) THEN {"MissingArtifact"} ELSE {})
  \cup (IF rp.kind = "text" /\ MarkersIn(rp) = {} THEN {"ParseError"} ELSE {})
  \cup (IF rp.kind = "json" /\ MarkersIn(rp) = {} THEN {"Success"} ELSE {})

\* the verdict of the priority order: parse marker, exit code 124,
\* OutOfMemoryError, StackOverflowError, missing requested artifact, success
PriorityVerdict(o, R, P) ==
  CASE Includes(o.stdout, ParseMarker) -> "ParseError"
    [] ~Includes(o.stdout, ParseMarker) /\ o.exitCode = 124 -> "Timeout"
    [] ~Includes(o.stdout, ParseMarker) /\ o.exitCode # 124
         /\ Includes(o.stderr, OomSignature) -> "OutOfMemory"
    [] ~Includes(o.stdout, ParseMarker) /\ o.exitCode # 124
         /\ ~Includes(o.stderr, OomSignature)
         /\ Includes(o.stderr, SoSignature) -> "StackOverflow"
    [] ~Includes(o.stdout, ParseMarker) /\ o.exitCode # 124
         /\ ~Includes(o.stderr, OomSignature)
         /\ ~Includes(o.stderr, SoSignature)
         /\ ~(R \subseteq P) -> "MissingArtifact"
    [] OTHER -> "Success"

\* no parse, timeout, out-of-memory or stack-overflow signature in the outcome
NoSignature(o) ==
  /\ ~Includes(o.stdout, ParseMarker)
  /\ o.exitCode # 124
  /\ ~Includes(o.stderr, OomSignature)
  /\ ~Includes(o.stderr, SoSignature)

\* the request holds a workspace
InFlight(r) == pc[r] \in {"acquired", "ready", "running", "releasing"}

\* position of a step in the pipeline
Rank(step) ==
  CASE step = "acquire" -> 1
    [] step = "write"   -> 2
    [] step = "invoke"  -> 3
    [] step = "exit"    -> 4
    [] step = "harvest" -> 5
    [] OTHER            -> 6

InTrace(r, step) == Includes(trace[r], step)

----------------------------------------------------------------------------
(* Properties *)

\* C1: once the processing of a request that went through tempDirMiddleware
\* has returned, on whatever path (JSON result, failure text, invalid
\* request, exception), its workspace directory does not exist.
C1_NoLeakedWorkspace ==
  \A r \in Requests :
    pc[r] = "done" /\ Entered(r) => ws[r] # NoDir /\ ws[r] \notin dirs

\* C1 witness: a request has returned after harvesting a JSON result from a
\* workspace the child wrote a file into.
C1_Witness ==
  \E r \in Requests :
    /\ pc[r] = "done" /\ InTrace(r, "harvest") /\ ~relErr[r]
    /\ delivered[r].kind = "json"
    /\ ArtifactKeys(delivered[r]) # {}

\* C2: in the variants that classify stdout (2 and 4) the response reports
\* exactly the one verdict of the priority order parse marker, exit code
\* 124, OutOfMemoryError, StackOverflowError, missing requested artifact,
\* success.
C2_FirstMatchWins ==
  \A r \in Requests :
    variant \in {2, 4} /\ Harvested(r) =>
      Verdicts(resp[r]) = {PriorityVerdict(outc[r], requested(req[r]), Present(r))}

\* C2 witness: stdout has the parse marker, the exit code is 124 and stderr
\* has both signatures; the response reports ParseError.
C2_Witness ==
  \E r \in Requests :
    /\ variant \in {2, 4} /\ Harvested(r)
    /\ Includes(outc[r].stdout, ParseMarker)
    /\ outc[r].exitCode = 124
    /\ Includes(outc[r].stderr, OomSignature)
    /\ Includes(outc[r].stderr, SoSignature)
    /\ Verdicts(resp[r]) = {"ParseError"}

\* C3: the response of every invocation carries at most one failure marker.
C3_AtMostOneFailure ==
  \A r \in Requests : Cardinality(MarkersIn(resp[r])) <= 1

\* C4: with no parse, timeout, out-of-memory or stack-overflow signature, a
\* response the handler returns reports MissingArtifact if and only if a
\* requested format has no output file, and Success otherwise.
C4_MissingIffRequestedAbsent ==
  \A r \in Requests :
    Harvested(r) /\ NoSignature(outc[r]) /\ resp[r].kind # "error" =>
      Verdicts(resp[r]) =
        IF requested(req[r]) \subseteq Present(r) THEN {"Success"}
                                                  ELSE {"MissingArtifact"}

\* C5: the artifacts of a response are among the formats both requested and
\* produced, and a Success response carries exactly the requested formats,
\* each with the content of its file.
C5_ArtifactsRequestedAndProduced ==
  \A r \in Requests :
    Harvested(r) =>
      /\ ArtifactKeys(resp[r]) \subseteq (requested(req[r]) \cap Present(r))
      /\ Verdicts(resp[r]) = {"Success"} =>
           /\ ArtifactKeys(resp[r]) = requested(req[r])
           /\ \A f \in requested(req[r]) :
                resp[r].arts[f] = files[ws[r]][OutFile(f)]

\* C6: the release step never raises, and the client receives the response
\* the handler computed, also when the workspace was removed beforehand.
C6_ReleaseNeverRaises ==
  \A r \in Requests :
    /\ ~relErr[r]
    /\ pc[r] = "done" /\ Entered(r) => delivered[r] = resp[r]

\* C7: whatever subset of the expected files exists after the child has
\* terminated, harvesting completes and the handler returns a response
\* instead of raising to the error handler.
C7_HarvestNeverThrows ==
  \A r \in Requests :
    InTrace(r, "harvest") => resp[r].kind # "error"

\* C8: while the child of an accepted request runs, a time limit of 1..10
\* seconds is in force and the child has not run longer than it.
C8_TimeoutInForce ==
  \A r \in Requests :
    alive[r] =>
      /\ req[r].timeout \in 1..MaxTimeout
      /\ elapsed[r] <= req[r].timeout

C10_LinearPipeline ==
  \A r \in Requests :
    /\ alive[r] => pc[r] = "running"
    /\ \A i, j \in 1..Len(trace[r]) :
         i < j => Rank(trace[r][i]) < Rank(trace[r][j])
    /\ InTrace(r, "harvest") => InTrace(r, "invoke") /\ InTrace(r, "exit")
    /\ InTrace(r, "invoke") => InTrace(r, "acquire")
    /\ InTrace(r, "invoke") /\ variant = 1 => InTrace(r, "write")
    /\ pc[r] = "done" /\ Entered(r) => trace[r][Len(trace[r])] = "release"

\* C10 witness: a request has gone through all six steps.
C10_Witness ==
  \E r \in Requests :
    /\ pc[r] = "done"
    /\ trace[r] = <<"acquire", "write", "invoke", "exit", "harvest", "release">>

====
